---- MODULE Spec2Model ----
(***************************************************************************)
(* Model of the grading engine of Chikkl/my_leetcode:                      *)
(*   core/aync_test_runner.py  run_single_test, run_all_tests              *)
(*   core/logic.py             validate_user_code, run_with_timeout,       *)
(*                             run_user_code_in_process                    *)
(*   user_code.py              process_data                                *)
(*                                                                         *)
(* Spec     : validate_user_code driving the asyncio harness.  Time is in  *)
(*            seconds.  asyncio.wait_for is modelled in its two CPython    *)
(*            implementations: the call runs as a child task (<= 3.11,     *)
(*            inline = FALSE) or inline under asyncio.timeout (>= 3.12,    *)
(*            inline = TRUE).                                              *)
(* SpecIso  : calls of run_with_timeout in a row; in each, the calling      *)
(*            thread, the watchdog thread join_process and the worker      *)
(*            process.  Time                                               *)
(*            is in ticks of 0.1 s.  A thread that can take a step takes   *)
(*            it before time passes.                                       *)
(***************************************************************************)
EXTENDS Integers, Sequences, FiniteSets, TLC

VARIABLES
    user_code,    \* the submitted source, abstracted to what exec() makes of it
    test_cases,   \* sequence of [input, expected]
    inline,       \* wait_for implementation (see above)
    vpc,          \* position of validate_user_code
    hpc,          \* position of run_all_tests
    clock,        \* wall clock of the event loop (time.perf_counter)
    task,         \* per case: the run_single_test task
    res,          \* per case: the dict returned by run_single_test
    done_order,   \* case indices in the order their tasks completed
    results,      \* value returned by run_all_tests
    ret,          \* value returned by validate_user_code
    timeout_sec,  \* run_with_timeout: its argument timeout_sec
    worker,       \* what the worker process does (process_data on input_data)
    wst,          \* state of the worker process p
    sigterm_at,   \* time of the first p.terminate(), or NoTime
    killers,      \* the threads that called p.terminate()
    queue,        \* messages in the multiprocessing.Queue of the call
    mpc,          \* position of the calling thread in run_with_timeout
    tpc,          \* position of the watchdog thread in join_process
    now,          \* wall clock of run_with_timeout
    iret,         \* value returned by run_with_timeout
    call,         \* number of the current invocation of run_with_timeout
    got           \* the queue entry that queue.get() returned to the caller

hvars == <<user_code, test_cases, inline, vpc, hpc, clock, task, res,
           done_order, results, ret>>

ivars == <<timeout_sec, worker, wst, sigterm_at, killers, queue, mpc, tpc,
           now, iret, call, got>>

vars == <<hvars, ivars>>

---------------------------------------------------------------------------
(* Bounds *)
MaxCases == 2      \* longest list of cases run against an arbitrary callable
MaxDur == 4        \* longest blocking or sleeping time of one call (> Timeout)
MaxLine == 2       \* largest line number of a syntax error
MaxLen == 2        \* longest input list given to process_data
MaxElem == 2       \* largest magnitude of an element of an input list

MaxTimeoutSec == 2 \* largest timeout_sec given to run_with_timeout
MaxWork == 4       \* longest time the worker needs for process_data
MaxTermDelay == 2  \* longest time a worker takes to die after SIGTERM
MaxNow == 7        \* the clock of run_with_timeout stops here
MaxCalls == 2      \* invocations of run_with_timeout in a row

(* Program constants *)
Timeout == 3       \* run_single_test(..., timeout: float = 3.0)
Grace == 1         \* thread.join(timeout_sec + 0.1): 0.1 s

---------------------------------------------------------------------------
(* Python values: a type tag and a number.  None is a value too. *)
PyInt(n) == [type |-> "int", num |-> n]
PyFloat(n) == [type |-> "float", num |-> n]
PyBool(n) == [type |-> "bool", num |-> n]
PyNone == [type |-> "NoneType", num |-> 0]
PyStr(s) == [type |-> "str", num |-> 0, text |-> s]

NumericTypes == {"int", "float", "bool"}

\* Values an arbitrary callable returns in the model.
Values == {PyInt(1), PyFloat(1), PyBool(1), PyInt(0)}

\* Python's == on these values: numbers compare by value across int, float
\* and bool (1 == 1.0, 1 == True); anything else compares by type and value.
PyEq(a, b) ==
    IF a.type \in NumericTypes /\ b.type \in NumericTypes
    THEN a.num = b.num
    ELSE a = b

---------------------------------------------------------------------------
(* user_code.py *)
\* Mutant: the even elements are summed without being squared.
RECURSIVE sum_of_evens(_)
sum_of_evens(data) ==
    IF data = <<>> THEN 0
    ELSE (IF Head(data) % 2 = 0 THEN Head(data) ELSE 0)
         + sum_of_evens(Tail(data))

RECURSIVE sum_of_squares(_)
sum_of_squares(data) ==
    IF data = <<>> THEN 0
    ELSE (IF Head(data) % 2 = 0 THEN Head(data) * Head(data) ELSE 0)
         + sum_of_squares(Tail(data))

process_data(data) == PyInt(sum_of_squares(data))

---------------------------------------------------------------------------
(* Test cases *)
Case(inp, exp) == [input |-> inp, expected |-> exp]

\* The example cases of the task.
EXAMPLES == << Case(<<1, 2, 3, 4>>, PyInt(20)), Case(<<>>, PyInt(0)),
               Case(<<2, 4, 6>>, PyInt(56)) >>

\* The n cases run against an arbitrary callable: distinct inputs, expected 1.
ArbitraryCases(n) == [k \in 1..n |-> Case(<<k>>, PyInt(1))]

\* Inputs the reference process_data is run on, besides EXAMPLES: every
\* list of at most MaxLen integers of magnitude at most MaxElem.
DataPool == UNION { [1..k -> (-MaxElem)..MaxElem] : k \in 0..MaxLen }

---------------------------------------------------------------------------
(* What a call user_func(input_data) does: it occupies the event loop      *)
(* without suspending for `block` seconds, then suspends (asyncio.sleep)   *)
(* for `sleep` seconds, then returns a value or raises.  `cancel` is what  *)
(* it does when it is cancelled while suspended: "unwind" (CancelledError  *)
(* propagates), "finish" (it catches CancelledError and carries on to its  *)
(* end) or "never" (it catches CancelledError and never ends).             *)
\* "BaseException": one that is no Exception (CancelledError, SystemExit,
\* KeyboardInterrupt).
ExcKinds == {"Exception", "TimeoutError", "BaseException"}

Ends == { [kind |-> "return", val |-> v, exc |-> "-"] : v \in Values }
        \cup { [kind |-> "raise", val |-> PyNone, exc |-> e] : e \in ExcKinds }

\* Time a call sleeps: none, short, exactly the timeout, longer.
Durations == {0, 1, Timeout, MaxDur}

\* Time a call blocks the event loop: none, short, longer than the timeout.
BlockTimes == {0, 1, MaxDur}

Behaviours ==
    { [block |-> b, sleep |-> s, end |-> e, cancel |-> "unwind"] :
        b \in BlockTimes, s \in Durations, e \in Ends }

\* Calls that do not unwind when cancelled: they sleep past the timeout.
StubbornBehaviours ==
    { [block |-> 0, sleep |-> MaxDur,
       end |-> [kind |-> "return", val |-> PyInt(1), exc |-> "-"],
       cancel |-> c] : c \in {"finish", "never"} }

\* A call either blocks or suspends (not both), to keep the model small.
CallBehaviours ==
    { b \in Behaviours : b.block = 0 \/ b.sleep = 0 } \cup StubbornBehaviours

\* The behaviours of the callable that user_code defines, on case c.
BehavioursOf(code, c) ==
    IF code.body = "process_data"
    THEN { [block |-> 0, sleep |-> 0,
            end |-> [kind |-> "return", val |-> process_data(c.input),
                     exc |-> "-"],
            cancel |-> "unwind"] }
    ELSE CallBehaviours

---------------------------------------------------------------------------
(* run_single_test: the three dicts it returns *)
NoTime == -1       \* "time": None
NoLine == 0        \* error_line None (line numbers are 1-based)

NoError == [kind |-> "none"]
TimeoutMessage == [kind |-> "TimeoutError: limit exceeded"]
Traceback(e) == [kind |-> "traceback", exc |-> e]

\* Mutant: the comparison also requires the same type.
SuccessSameType(c, result, duration) ==
    [input |-> c.input, expected |-> c.expected, result |-> result,
     passed |-> (result = c.expected), time |-> duration,
     error |-> NoError]

Success(c, result, duration) ==
    [input |-> c.input, expected |-> c.expected, result |-> result,
     passed |-> PyEq(result, c.expected), time |-> duration,
     error |-> NoError]

\* Mutant: the timed-out dict keeps an elapsed time.
TimedOutWithTime(c) ==
    [input |-> c.input, expected |-> c.expected, result |-> PyNone,
     passed |-> FALSE, time |-> Timeout, error |-> TimeoutMessage]

TimedOut(c) ==
    [input |-> c.input, expected |-> c.expected, result |-> PyNone,
     passed |-> FALSE, time |-> NoTime, error |-> TimeoutMessage]

Failure(c, e) ==
    [input |-> c.input, expected |-> c.expected, result |-> PyNone,
     passed |-> FALSE, time |-> NoTime, error |-> Traceback(e)]

Pending == [kind |-> "pending"]


\* The dict run_single_test returns when the awaited call ends with `end`
\* after `duration` seconds (Pending: the exception leaves run_single_test).
run_single_test(c, end, duration) ==
    IF end.kind = "return" THEN Success(c, end.val, duration)
    ELSE IF end.exc = "TimeoutError" THEN TimedOut(c)
    ELSE IF end.exc = "BaseException" THEN Pending
    ELSE Failure(c, end.exc)

---------------------------------------------------------------------------
(* run_all_tests *)
N == Len(test_cases)
Tasks == 1..N

NewTask == [st |-> "new", beh |-> Pending, start |-> 0, deadline |-> 0,
            wake |-> 0]

\* Mutant: results collected in the order the tasks completed.
gather_as_completed(r) == [k \in 1..Len(done_order) |-> r[done_order[k]]]

\* asyncio.gather: the children's results in the order of the children.
gather(r) == [i \in 1..Len(test_cases) |-> r[i]]

---------------------------------------------------------------------------
(* validate_user_code: the report *)
\* time_info: the time, or a dash when "time" is None (a measured time is
\* never exactly 0.0, the other falsy value).
TimeInfo(r) == IF r.time = NoTime THEN "dash" ELSE "seconds"

ReportLinesOf(i, r) ==
    << [n |-> i, status |-> IF r.passed THEN "ok" ELSE "fail",
        time_info |-> TimeInfo(r)] >>
    \o (IF r.passed THEN <<>>
        ELSE IF r.error # NoError
        THEN << [n |-> i, status |-> "error", time_info |-> "-"] >>
        ELSE << [n |-> i, status |-> "expected_got", time_info |-> "-"] >>)

RECURSIVE report_lines(_, _)
report_lines(rs, i) ==
    IF i > Len(rs) THEN <<>>
    ELSE ReportLinesOf(i, rs[i]) \o report_lines(rs, i + 1)

\* Mutant: all_passed is overwritten by every case instead of only cleared.
all_passed_last(rs) == Len(rs) = 0 \/ rs[Len(rs)].passed

all_passed(rs) == \A i \in 1..Len(rs) : rs[i].passed

Report(rs) ==
    [all_passed |-> all_passed(rs), report |-> report_lines(rs, 1),
     error_line |-> NoLine]

\* Mutant: the line number of the error is not returned.
LoadFailureNoLine(kind, line) ==
    [all_passed |-> FALSE, report |-> << [n |-> line, status |-> kind,
                                          time_info |-> "-"] >>,
     error_line |-> NoLine]

LoadFailure(kind, line) ==
    [all_passed |-> FALSE, report |-> << [n |-> line, status |-> kind,
                                          time_info |-> "-"] >>,
     error_line |-> line]

NoReturn == [all_passed |-> FALSE, report |-> <<>>, error_line |-> NoLine]

---------------------------------------------------------------------------
(* Initial states *)
UserCodes ==
    { [syntax_line |-> l, load_raises |-> FALSE, defn |-> "async",
       body |-> "any"] : l \in 1..MaxLine }
    \cup { [syntax_line |-> 0, load_raises |-> TRUE, defn |-> "async",
            body |-> "any"] }
    \cup { [syntax_line |-> 0, load_raises |-> FALSE, defn |-> d, body |-> b] :
             d \in {"none", "sync", "async"}, b \in {"any", "process_data"} }

CaseLists(code) ==
    IF code.body = "process_data"
    THEN {EXAMPLES} \cup { << Case(d, PyInt(e)) >> :
                              d \in DataPool, e \in {0, 4} }
    ELSE { ArbitraryCases(n) : n \in 0..MaxCases }

\* run_with_timeout not called.
IsoIdle ==
    /\ timeout_sec = 0
    /\ worker = Pending
    /\ wst = "unstarted"
    /\ sigterm_at = NoTime
    /\ killers = {}
    /\ queue = <<>>
    /\ mpc = "idle"
    /\ tpc = "unstarted"
    /\ now = 0
    /\ iret = Pending
    /\ call = 0
    /\ got = Pending

Init ==
    /\ IsoIdle
    /\ user_code \in UserCodes
    /\ test_cases \in CaseLists(user_code)
    /\ inline \in BOOLEAN
    /\ vpc = "start"
    /\ hpc = "idle"
    /\ clock = 0
    /\ task = [i \in 1..Len(test_cases) |-> NewTask]
    /\ res = [i \in 1..Len(test_cases) |-> Pending]
    /\ done_order = <<>>
    /\ results = <<>>
    /\ ret = NoReturn

---------------------------------------------------------------------------
(* validate_user_code, lines 152-165: exec the source, look up process_data *)
ValidateLoad ==
    /\ vpc = "start"
    /\ IF user_code.syntax_line > 0
       THEN /\ ret' = LoadFailure("syntax", user_code.syntax_line)
            /\ vpc' = "returned"
            /\ hpc' = hpc
       ELSE IF user_code.load_raises
       THEN /\ ret' = LoadFailure("load_error", NoLine)
            /\ vpc' = "returned"
            /\ hpc' = hpc
       ELSE IF user_code.defn # "async"
       THEN /\ ret' = LoadFailure("not_async", NoLine)
            /\ vpc' = "returned"
            /\ hpc' = hpc
       ELSE /\ vpc' = "running"
            /\ hpc' = "running"
            /\ ret' = ret
    /\ UNCHANGED <<user_code, test_cases, inline, clock, task, res,
                   done_order, results>>
    /\ UNCHANGED ivars

\* Task i ends: its dict is stored, or its exception leaves the harness and
\* validate_user_code (neither catches a BaseException).
EndTask(i, t, at) ==
    LET r == run_single_test(test_cases[i], t.beh.end, at - t.start) IN
    IF r = Pending
    THEN /\ vpc' = "raised"
         /\ hpc' = "raised"
         /\ task' = [task EXCEPT ![i] = [t EXCEPT !.st = "raised"]]
         /\ UNCHANGED <<res, done_order>>
    ELSE /\ res' = [res EXCEPT ![i] = r]
         /\ task' = [task EXCEPT ![i] = [t EXCEPT !.st = "done"]]
         /\ done_order' = Append(done_order, i)
         /\ UNCHANGED <<vpc, hpc>>

\* Deadline of wait_for passed: the call is cancelled.
ExpireTask(i) ==
    /\ res' = [res EXCEPT ![i] = TimedOut(test_cases[i])]
    /\ task' = [task EXCEPT ![i].st = "done"]
    /\ done_order' = Append(done_order, i)
    /\ UNCHANGED <<vpc, hpc>>

\* First step of run_single_test for case i (tasks start in list order).
\* Inline wait_for runs the call up to its first suspension right here.
Start(i) ==
    /\ hpc = "running"
    /\ task[i].st = "new"
    /\ \A j \in 1..(i - 1) : task[j].st # "new"
    /\ IF inline
       THEN \E b \in BehavioursOf(user_code, test_cases[i]) :
              LET t == [st |-> "waiting", beh |-> b, start |-> clock,
                        deadline |-> clock + Timeout,
                        wake |-> clock + b.block + b.sleep] IN
              /\ clock' = clock + b.block
              /\ IF b.sleep = 0
                 THEN EndTask(i, t, clock')
                 ELSE /\ task' = [task EXCEPT ![i] = t]
                      /\ UNCHANGED <<res, done_order, vpc, hpc>>
       ELSE /\ task' = [task EXCEPT ![i] =
                  [st |-> "started", beh |-> Pending, start |-> clock,
                   deadline |-> clock + Timeout, wake |-> 0]]
            /\ UNCHANGED <<clock, res, done_order, vpc, hpc>>
    /\ UNCHANGED <<user_code, test_cases, inline, results, ret>>
    /\ UNCHANGED ivars

\* Child-task wait_for: first step of the call itself, after every
\* run_single_test has taken its first step.
CallStart(i) ==
    /\ hpc = "running"
    /\ ~inline
    /\ task[i].st = "started"
    /\ \A j \in Tasks : task[j].st # "new"
    /\ \A j \in 1..(i - 1) : task[j].st # "started"
    /\ \E b \in BehavioursOf(user_code, test_cases[i]) :
         /\ clock' = clock + b.block
         /\ task' = [task EXCEPT ![i].st = "waiting", ![i].beh = b,
                                 ![i].wake = clock' + b.sleep]
    /\ UNCHANGED <<user_code, test_cases, inline, vpc, hpc, res, done_order,
                   results, ret>>
    /\ UNCHANGED ivars

Started == \A j \in Tasks : task[j].st \notin {"new", "started"}

\* A cancelled call that does not unwind: wait_for goes on awaiting it.
CancelTask(i) ==
    /\ task' = [task EXCEPT ![i].st = "cancelling"]
    /\ UNCHANGED <<res, done_order, vpc, hpc>>

Due(i) ==
    \/ /\ task[i].st = "waiting"
       /\ task[i].wake <= clock \/ task[i].deadline <= clock
    \/ /\ task[i].st = "cancelling"
       /\ task[i].beh.cancel = "finish"
       /\ task[i].wake <= clock

\* Does the call of task i complete, or is it cancelled by its deadline?
\* Child task: the sleep timer and the deadline timer fire in the order of
\* their times; a call that never suspends cannot be cancelled.
\* Inline: the call completes if it is resumed before the deadline.
Completes(i) ==
    IF inline
    THEN task[i].wake <= clock /\ clock < task[i].deadline
    ELSE task[i].beh.sleep = 0 \/ task[i].wake < task[i].deadline

\* run_single_test resumes after `await asyncio.wait_for(...)`.
Resume(i) ==
    /\ hpc = "running"
    /\ Started
    /\ Due(i)
    /\ IF task[i].st = "cancelling" \/ Completes(i)
       THEN EndTask(i, task[i], clock)
       ELSE IF task[i].beh.cancel = "unwind"
       THEN ExpireTask(i)
       ELSE CancelTask(i)
    /\ UNCHANGED <<user_code, test_cases, inline, clock, results, ret>>
    /\ UNCHANGED ivars

\* Time passes when the event loop has nothing to run.
Tick ==
    /\ hpc = "running"
    /\ Started
    /\ \E i \in Tasks :
         \/ task[i].st = "waiting"
         \/ task[i].st = "cancelling" /\ task[i].beh.cancel = "finish"
    /\ \A i \in Tasks : ~Due(i)
    /\ clock' = clock + 1
    /\ UNCHANGED <<user_code, test_cases, inline, vpc, hpc, task, res,
                   done_order, results, ret>>
    /\ UNCHANGED ivars

\* run_all_tests returns (line 113-114) and validate_user_code builds the
\* report (lines 172-188).
Finish ==
    /\ hpc = "running"
    /\ \A i \in Tasks : task[i].st = "done"
    /\ results' = gather(res)
    /\ hpc' = "returned"
    /\ ret' = Report(results')
    /\ vpc' = "returned"
    /\ UNCHANGED <<user_code, test_cases, inline, clock, task, res,
                   done_order>>
    /\ UNCHANGED ivars

Next ==
    \/ ValidateLoad
    \/ \E i \in Tasks : Start(i)
    \/ \E i \in Tasks : CallStart(i)
    \/ \E i \in Tasks : Resume(i)
    \/ Tick
    \/ Finish

Spec == Init /\ [][Next]_vars

---------------------------------------------------------------------------
(* run_with_timeout (core/logic.py) *)

\* What the worker makes of process_data(input_data): after `work` ticks it
\* puts ("result", value) or ("error", message) on the queue and exits, or it
\* exits without a message ("exit": os._exit, a crash, SystemExit); a worker
\* with finishes = FALSE never gets that far.  `term` is the time it takes to
\* die once SIGTERM is sent; a worker with dies = FALSE ignores or blocks the
\* signal.
\* A value whose pickle is larger than the buffer of the pipe under the
\* queue.
BigValue == PyStr("x * 1000000")
ExceedsPipe(v) == v = BigValue

WorkerEnds ==
    { [kind |-> "result", val |-> v] : v \in {PyInt(20), PyNone, BigValue} }
    \cup { [kind |-> "error", val |-> PyStr("str(e)")],
           [kind |-> "exit", val |-> PyNone] }

WorkTimes ==
    { [finishes |-> TRUE, work |-> w] : w \in 0..MaxWork }
    \cup { [finishes |-> FALSE, work |-> 0] }

TermTimes ==
    { [dies |-> TRUE, term |-> t] : t \in 0..MaxTermDelay }
    \cup { [dies |-> FALSE, term |-> 0] }

Workers ==
    { [finishes |-> w.finishes, work |-> w.work, end |-> e,
       dies |-> t.dies, term |-> t.term] :
        w \in WorkTimes, e \in WorkerEnds, t \in TermTimes }

Message(status, val) == [status |-> status, val |-> val]
TimeoutResult == Message("timeout", PyNone)
\* Mutant: an empty queue is reported as a result.
NoResultAsResult == Message("result", PyNone)

\* ("error", "Нет результата")
NoResultError == Message("error", PyStr("Net rezul'tata"))

\* The harness is not running.
HarnessIdle ==
    /\ user_code = [syntax_line |-> 0, load_raises |-> FALSE, defn |-> "async",
                    body |-> "process_data"]
    /\ test_cases = <<>>
    /\ inline = FALSE
    /\ vpc = "start"
    /\ hpc = "idle"
    /\ clock = 0
    /\ task = <<>>
    /\ res = <<>>
    /\ done_order = <<>>
    /\ results = <<>>
    /\ ret = NoReturn

InitIso ==
    /\ HarnessIdle
    /\ timeout_sec \in 1..MaxTimeoutSec
    /\ worker \in Workers
    /\ wst = "unstarted"
    /\ sigterm_at = NoTime
    /\ killers = {}
    /\ queue = <<>>
    /\ mpc = "start"
    /\ tpc = "unstarted"
    /\ now = 0
    /\ iret = Pending
    /\ call = 1
    /\ got = Pending

\* p.is_alive()
is_alive == wst \in {"running", "put"}

\* p.terminate() by thread `who`: SIGTERM is sent to a live worker.
terminate(who) ==
    /\ killers' = killers \cup {who}
    /\ sigterm_at' = IF sigterm_at = NoTime THEN now ELSE sigterm_at

\* Mutant: one queue shared by all invocations.
SharedQueue == queue

\* Line 67: queue = multiprocessing.Queue(), a new queue for every call.
NewQueue == <<>>

\* What the worker of the current call puts on the queue.  The feeder thread
\* of the queue writes the pickled message into the pipe; a message larger
\* than the pipe buffer is not whole in the pipe until the other end reads.
Entry(msg) == [msg |-> msg, by |-> call, whole |-> ~ExceedsPipe(msg.val)]

\* Lines 67-80: the queue, the process p, p.start(), thread.start().
\* p.start() may fail to create the process (fork fails with OSError); no
\* line catches that exception, which leaves run_with_timeout.
RunStart ==
    /\ mpc = "start"
    /\ queue' = NewQueue
    /\ sigterm_at' = NoTime
    /\ killers' = {}
    /\ \E spawned \in BOOLEAN :
         IF spawned
         THEN /\ wst' = "running"
              /\ tpc' = "join"
              /\ mpc' = "thread_join"
         ELSE /\ wst' = "unstarted"
              /\ tpc' = "unstarted"
              /\ mpc' = "raised"
    /\ UNCHANGED <<timeout_sec, worker, now, iret, call, got>>
    /\ UNCHANGED hvars

\* run_user_code_in_process, lines 41-47: process_data is over; its result
\* or its exception is put on the queue.
WorkerPutEnabled ==
    /\ wst = "running"
    /\ worker.finishes
    /\ now >= worker.work

WorkerPut ==
    /\ WorkerPutEnabled
    /\ IF worker.end.kind = "exit"
       THEN /\ wst' = "exited"
            /\ queue' = queue
       ELSE /\ wst' = "put"
            /\ queue' = Append(queue, Entry(Message(worker.end.kind,
                                                    worker.end.val)))
    /\ UNCHANGED <<timeout_sec, worker, sigterm_at, killers, mpc, tpc, now,
                   iret, call,
                   got>>
    /\ UNCHANGED hvars

\* The worker process exits on its own, once the feeder thread of the queue
\* has written all of the message into the pipe.
WorkerExitEnabled ==
    /\ wst = "put"
    /\ \A k \in 1..Len(queue) : queue[k].whole

WorkerExit ==
    /\ WorkerExitEnabled
    /\ wst' = "exited"
    /\ UNCHANGED <<timeout_sec, worker, sigterm_at, killers, queue, mpc, tpc,
                   now, iret, call,
                   got>>
    /\ UNCHANGED hvars

\* The worker process dies of SIGTERM.
WorkerDieEnabled ==
    /\ is_alive
    /\ sigterm_at # NoTime
    /\ worker.dies
    /\ now >= sigterm_at + worker.term

WorkerDie ==
    /\ WorkerDieEnabled
    /\ wst' = "killed"
    /\ UNCHANGED <<timeout_sec, worker, sigterm_at, killers, queue, mpc, tpc,
                   now, iret, call,
                   got>>
    /\ UNCHANGED hvars

\* join_process, line 74: p.join(timeout_sec) returns.
WatchdogJoinEnabled ==
    /\ tpc = "join"
    /\ ~is_alive \/ now >= timeout_sec

\* join_process, lines 74-76: after p.join(timeout_sec), a live worker is
\* terminated.
WatchdogJoin ==
    /\ WatchdogJoinEnabled
    /\ IF is_alive
       THEN /\ terminate("watchdog")
            /\ tpc' = "p_join"
       ELSE /\ tpc' = "ended"
            /\ UNCHANGED <<killers, sigterm_at>>
    /\ UNCHANGED <<timeout_sec, worker, wst, queue, mpc, now, iret, call,
                   got>>
    /\ UNCHANGED hvars

\* join_process, line 77: p.join() returns once the worker is dead.
WatchdogReapEnabled == tpc = "p_join" /\ ~is_alive

WatchdogReap ==
    /\ WatchdogReapEnabled
    /\ tpc' = "ended"
    /\ UNCHANGED <<timeout_sec, worker, wst, sigterm_at, killers, queue, mpc,
                   now, iret, call,
                   got>>
    /\ UNCHANGED hvars

\* Line 81: thread.join(timeout_sec + 0.1) returns.
CallerJoinEnabled ==
    /\ mpc = "thread_join"
    /\ tpc = "ended" \/ now >= timeout_sec + Grace

\* Lines 81-91: after thread.join, a live worker is terminated; otherwise the
\* queue decides what is returned.  queue.empty() is False as soon as the
\* pipe holds any bytes; queue.get() on a message that its dead writer left
\* incomplete blocks for ever (mpc = "get").
CallerJoin ==
    /\ CallerJoinEnabled
    /\ IF is_alive
       THEN /\ terminate("caller")
            /\ mpc' = "p_join"
            /\ UNCHANGED <<queue, iret, got>>
       ELSE /\ UNCHANGED <<killers, sigterm_at>>
            /\ IF queue = <<>>
               THEN /\ mpc' = "returned"
                    /\ iret' = NoResultError
                    /\ UNCHANGED <<queue, got>>
               ELSE IF Head(queue).whole
               THEN /\ mpc' = "returned"
                    /\ got' = Head(queue)
                    /\ iret' = Head(queue).msg
                    /\ queue' = Tail(queue)
               ELSE /\ mpc' = "get"
                    /\ UNCHANGED <<queue, iret, got>>
    /\ UNCHANGED <<timeout_sec, worker, wst, tpc, now, call>>
    /\ UNCHANGED hvars

\* Mutant: the caller does not join the worker it terminated.
CallerReapNoJoin == mpc = "p_join"

\* Lines 85-86: p.join() returns once the worker is dead.
CallerReapEnabled == mpc = "p_join" /\ ~is_alive

CallerReap ==
    /\ CallerReapEnabled
    /\ mpc' = "returned"
    /\ iret' = TimeoutResult
    /\ UNCHANGED <<timeout_sec, worker, wst, sigterm_at, killers, queue, tpc,
                   now, call,
                   got>>
    /\ UNCHANGED hvars

\* Time passes when no thread and no process can take a step.
IsoTick ==
    /\ mpc # "start"
    /\ now < MaxNow
    /\ ~WorkerPutEnabled /\ ~WorkerExitEnabled /\ ~WorkerDieEnabled
    /\ ~WatchdogJoinEnabled /\ ~WatchdogReapEnabled
    /\ ~CallerJoinEnabled /\ ~CallerReapEnabled
    /\ now' = now + 1
    /\ UNCHANGED <<timeout_sec, worker, wst, sigterm_at, killers, queue, mpc,
                   tpc, iret, call,
                   got>>
    /\ UNCHANGED hvars

\* The caller invokes run_with_timeout again, after the previous invocation
\* returned or raised.
RunAgain ==
    /\ mpc \in {"returned", "raised"}
    /\ call < MaxCalls
    /\ call' = call + 1
    /\ timeout_sec' \in 1..MaxTimeoutSec
    /\ worker' \in Workers
    /\ mpc' = "start"
    /\ tpc' = "unstarted"
    /\ now' = 0
    /\ iret' = Pending
    /\ got' = Pending
    /\ UNCHANGED <<wst, sigterm_at, killers, queue>>
    /\ UNCHANGED hvars

NextIso ==
    \/ RunStart
    \/ RunAgain
    \/ WorkerPut
    \/ WorkerExit
    \/ WorkerDie
    \/ WatchdogJoin
    \/ WatchdogReap
    \/ CallerJoin
    \/ CallerReap
    \/ IsoTick

SpecIso == InitIso /\ [][NextIso]_vars

---------------------------------------------------------------------------
(* Claims about the harness and validate_user_code, checked under Spec *)

Ended(i) == task[i].st = "done"
IsSuccess(r) == r.error = NoError
Took(i) == task[i].beh.block + task[i].beh.sleep

\* C1: when run_all_tests returns, its list is as long as the case list and
\* the i-th result carries the input and the expected value of the i-th case,
\* whatever the order in which the tasks completed.
C1_OrderPreserved ==
    hpc = "returned" =>
        /\ Len(results) = Len(test_cases)
        /\ \A i \in 1..Len(test_cases) :
             /\ results[i].input = test_cases[i].input
             /\ results[i].expected = test_cases[i].expected
             /\ results[i] = res[i]

\* Witness of C1: the harness returned although the second case completed
\* before the first one.
C1_Witness ==
    /\ hpc = "returned"
    /\ Len(done_order) = 2
    /\ done_order[1] = 2

\* C2: a call that takes longer than the timeout ends as timed out, and no
\* Success carries an elapsed time above the timeout.
C2_SlowCallTimesOut ==
    \A i \in Tasks :
        Ended(i) =>
            /\ Took(i) > Timeout => res[i] = TimedOut(test_cases[i])
            /\ IsSuccess(res[i]) => res[i].time <= Timeout

\* The outcome (result, passed, error) of a call run on its own.
OutcomeAlone(i) ==
    LET b == task[i].beh
        r == IF b.sleep = 0 \/ b.cancel = "finish"
                \/ b.block + b.sleep < Timeout
             THEN run_single_test(test_cases[i], b.end, b.block + b.sleep)
             ELSE TimedOut(test_cases[i])
    IN  <<r.result, r.passed, r.error>>

\* C4: once the harness is over, a case whose call raised has not changed
\* the outcome of any other case.
C4_RaiseIsIsolated ==
    \A k \in Tasks :
        ( /\ hpc \in {"returned", "raised"}
          /\ task[k].st \in {"done", "raised"}
          /\ task[k].beh.end.kind = "raise" )
        => /\ hpc = "returned"
           /\ \A j \in Tasks \ {k} :
                <<results[j].result, results[j].passed, results[j].error>>
                    = OutcomeAlone(j)

\* C5: run_all_tests never raises because of a case.
C5_HarnessNeverRaises == hpc # "raised"

\* C7 as stated: passed iff the call succeeded and the value returned is the
\* expected value, type included.
C7_PassedIffSameTypeAndValue ==
    \A i \in Tasks :
        Ended(i) =>
            (res[i].passed <=>
                (IsSuccess(res[i]) /\ res[i].result = res[i].expected))

\* a == b in Python for numbers and None, written out by cases.
EqualInPython(a, b) ==
    \/ a = b
    \/ /\ a.type \in {"int", "float", "bool"}
       /\ b.type \in {"int", "float", "bool"}
       /\ a.num - b.num = 0

\* C7 as amended: passed iff the call succeeded and the value returned
\* compares equal to the expected value under Python's ==, under which 1.0 and
\* True equal 1; a different number never passes.
C7_PassedIffPythonEqual ==
    \A i \in Tasks :
        Ended(i) =>
            (res[i].passed <=>
                (IsSuccess(res[i])
                 /\ EqualInPython(res[i].result, res[i].expected)))

\* Witness of C7: a float returned for an expected int passed, and a wrong
\* int did not.
C7_Witness ==
    /\ N = 2
    /\ Ended(1) /\ Ended(2)
    /\ res[1].result = PyFloat(1) /\ res[1].expected = PyInt(1)
    /\ res[1].passed
    /\ res[2].result = PyInt(0) /\ IsSuccess(res[2]) /\ ~res[2].passed

LoadFails ==
    \/ user_code.syntax_line > 0
    \/ user_code.load_raises
    \/ user_code.defn # "async"

\* C8: source that fails to load never starts the harness; a syntax error
\* returns (False, message naming the line, line), a missing or non-async
\* process_data returns (False, message, None).
C8_LoadFailureSkipsHarness ==
    LoadFails =>
        /\ hpc = "idle"
        /\ \A i \in Tasks : task[i].st = "new" /\ res[i] = Pending
        /\ vpc \in {"start", "returned"}
        /\ vpc = "returned" =>
             /\ ~ret.all_passed
             /\ Len(ret.report) = 1
             /\ IF user_code.syntax_line > 0
                THEN /\ ret.error_line = user_code.syntax_line
                     /\ ret.error_line >= 1
                     /\ ret.report[1].status = "syntax"
                     /\ ret.report[1].n = user_code.syntax_line
                ELSE /\ ret.error_line = NoLine
                     /\ ret.report[1].status \in {"load_error", "not_async"}

\* Witness of C8: a syntax error on line 2 has been reported with line 2.
C8_Witness ==
    /\ vpc = "returned"
    /\ user_code.syntax_line = 2
    /\ ret.error_line = 2

\* C9: when the harness ran and validate_user_code returns, all_passed is
\* true exactly when no case failed, and error_line is None.
C9_AllPassedIsConjunction ==
    (vpc = "returned" /\ hpc = "returned") =>
        /\ ret.all_passed <=> ~(\E i \in Tasks : ~res[i].passed)
        /\ ret.error_line = NoLine

\* Witness of C9: a report over one passed and one failed case.
C9_Witness ==
    /\ vpc = "returned" /\ hpc = "returned"
    /\ N = 2
    /\ ~res[1].passed /\ res[2].passed
    /\ ~ret.all_passed

\* Sum of f over the finite set S of indices.
RECURSIVE SumOver(_, _)
SumOver(S, f) ==
    IF S = {} THEN 0
    ELSE LET x == CHOOSE y \in S : TRUE IN f[x] + SumOver(S \ {x}, f)

\* The sum of the squares of the even elements of data.
EvenSquareSum(data) ==
    SumOver({ i \in DOMAIN data : data[i] % 2 = 0 },
            [i \in DOMAIN data |-> data[i] * data[i]])

\* C10: process_data returns the sum of the squares of the even elements, and
\* on the example cases validate_user_code returns all_passed with one
\* passed line per case.
C10_ReferenceSolutionPasses ==
    user_code.body = "process_data" =>
        /\ \A i \in Tasks :
             Ended(i) =>
                /\ IsSuccess(res[i])
                /\ res[i].result = PyInt(EvenSquareSum(test_cases[i].input))
        /\ (vpc = "returned" /\ hpc = "returned" /\ test_cases = EXAMPLES) =>
             /\ ret.all_passed
             /\ Len(ret.report) = Len(EXAMPLES)
             /\ \A n \in 1..Len(EXAMPLES) :
                  ret.report[n].n = n /\ ret.report[n].status = "ok"

\* Witness of C10: the example cases have been graded.
C10_Witness ==
    /\ user_code.body = "process_data"
    /\ test_cases = EXAMPLES
    /\ vpc = "returned" /\ hpc = "returned"
    /\ ret.all_passed

\* C12: once run_all_tests has returned, a slow case (its call takes the
\* timeout or longer) has not changed any other case: every other case whose
\* call alone returns within the timeout is a Success with its own value.
C12_SlowCaseIsIsolated ==
    \A k \in Tasks :
        (hpc = "returned" /\ Took(k) >= Timeout) =>
            \A j \in Tasks \ {k} :
                (Took(j) < Timeout /\ task[j].beh.end.kind = "return") =>
                    /\ IsSuccess(results[j])
                    /\ results[j].result = task[j].beh.end.val

\* C13: a call that does not unwind when it is cancelled at its deadline
\* still ends as timed out, and the harness is never left waiting for a call
\* that will not end.
C13_StubbornCallTimesOut ==
    \A i \in Tasks :
        /\ (Ended(i) /\ task[i].beh.cancel # "unwind")
              => res[i] = TimedOut(test_cases[i])
        /\ ~( /\ hpc = "running"
              /\ task[i].st = "cancelling"
              /\ task[i].beh.cancel = "never"
              /\ \A j \in Tasks \ {i} : Ended(j) )

\* C16: a case that ended before its deadline is not reported as timed out,
\* and when its call raised it is a Failure carrying the traceback of that
\* exception.
C16_RaiseBeforeDeadlineIsFailure ==
    \A i \in Tasks :
        (Ended(i) /\ clock < task[i].deadline) =>
            /\ res[i] # TimedOut(test_cases[i])
            /\ task[i].beh.end.kind = "raise" =>
                 res[i] = Failure(test_cases[i], task[i].beh.end.exc)

\* The three shapes of the dict of case i.
SuccessShape(i) ==
    /\ res[i].error = NoError
    /\ res[i].time # NoTime
    /\ res[i].result = task[i].beh.end.val

TimedOutShape(i) ==
    /\ res[i].error = TimeoutMessage
    /\ res[i].result = PyNone
    /\ res[i].time = NoTime

FailureShape(i) ==
    /\ res[i].error = Traceback(task[i].beh.end.exc)
    /\ res[i].result = PyNone
    /\ res[i].time = NoTime

\* C17: every dict returned by run_single_test has exactly one of the three
\* shapes, and passed is False unless it is a Success.
C17_ThreeShapes ==
    \A i \in Tasks :
        res[i] # Pending =>
            /\ Cardinality({ s \in {"success", "timeout", "failure"} :
                    \/ s = "success" /\ SuccessShape(i)
                    \/ s = "timeout" /\ TimedOutShape(i)
                    \/ s = "failure" /\ FailureShape(i) }) = 1
            /\ ~SuccessShape(i) => res[i].passed = FALSE

\* Witness of C17: one case timed out, another one failed with a traceback.
C17_Witness ==
    /\ N = 2
    /\ Ended(1) /\ Ended(2)
    /\ TimedOutShape(1)
    /\ FailureShape(2)
    /\ ~res[1].passed /\ ~res[2].passed

---------------------------------------------------------------------------
(* Claims about run_with_timeout, checked under SpecIso *)

\* C3: a worker still running at timeout_sec and forcibly terminated makes
\* run_with_timeout return the status "timeout".
C3_TerminatedMeansTimeout ==
    (mpc = "returned" /\ wst = "killed") => iret.status = "timeout"

\* C6: run_with_timeout has returned once the deadline, the grace of the
\* caller and the time a worker takes to die of SIGTERM have passed.
C6_ReturnsWithinGrace ==
    now > timeout_sec + Grace + MaxTermDelay => mpc = "returned"

\* C11: the message an invocation of run_with_timeout returns was put on the
\* queue by the worker of that invocation, never by the worker of an earlier
\* one.
C11_OwnWorkersMessage ==
    (mpc = "returned" /\ got # Pending) =>
        /\ got.by = call
        /\ iret = got.msg

\* Witness of C11: a second invocation returned a message of its worker.
C11_Witness ==
    /\ call = 2
    /\ mpc = "returned"
    /\ got # Pending
    /\ got.by = 2
    /\ iret.status = "result"

\* C14: when the worker exited on its own before the deadline, the caller
\* returns the message the worker put, or the no-result error when it put
\* none; and "result" is only ever returned from a "result" message of the
\* worker.
C14_ReturnsWhatWorkerDelivered ==
    mpc = "returned" =>
        /\ (wst = "exited" /\ worker.work < timeout_sec) =>
              iret = IF worker.end.kind = "exit" THEN NoResultError
                     ELSE Message(worker.end.kind, worker.end.val)
        /\ iret.status = "result" =>
              /\ worker.end.kind = "result"
              /\ got # Pending
              /\ got.by = call
              /\ iret = Message("result", worker.end.val)

\* Witness of C14: a worker that exited early without a message made the
\* call return the no-result error.
C14_Witness ==
    /\ mpc = "returned"
    /\ wst = "exited"
    /\ worker.work < timeout_sec
    /\ worker.end.kind = "exit"
    /\ iret = NoResultError
    /\ iret.status = "error"

\* C15: a worker that exited on its own has put exactly one message on the
\* queue of its call (the message is in the queue or the caller has got it).
C15_ExactlyOneMessage ==
    (wst = "exited" /\ mpc # "start") =>
        Len(queue) + (IF got = Pending THEN 0 ELSE 1) = 1

\* C18: when the worker process could not be created, run_with_timeout
\* returns an "error" status with a message of the failure, which is not the
\* no-result error.
C18_SpawnFailureIsError ==
    (wst = "unstarted" /\ mpc # "start") =>
        /\ mpc = "returned"
        /\ iret.status = "error"
        /\ iret # NoResultError

\* C19: when run_with_timeout has returned, on any return path, the worker
\* process of the call is not alive.
C19_WorkerDeadOnReturn ==
    mpc = "returned" =>
        /\ ~is_alive
        /\ wst \in {"exited", "killed"}

\* Witness of C19: the call returned after both the watchdog thread and the
\* caller had terminated a worker that took time to die.
C19_Witness ==
    /\ mpc = "returned"
    /\ killers = {"watchdog", "caller"}
    /\ worker.term > 0
    /\ wst = "killed"
    /\ iret = TimeoutResult

\* C20: when process_data returns v in the worker before the deadline, the
\* caller is not left blocked on the queue, and when run_with_timeout
\* returns it returns ("result", v).
C20_EarlyResultIsReturned ==
    ( /\ mpc \in {"get", "returned"}
      /\ worker.finishes
      /\ worker.work < timeout_sec
      /\ worker.end.kind = "result" )
    => /\ mpc = "returned"
       /\ iret = Message("result", worker.end.val)

====
